---- MODULE Spec2Model ----
(***************************************************************************)
(* HRMS backend: the attendance tracker (clock-in / clock-out / manual     *)
(* entry) and the leave workflow (create / update / approve / reject /     *)
(* delete), modelled from the controllers and the mongoose schemas.        *)
(*                                                                         *)
(* Time is counted in hours since an epoch that is a UTC midnight.  An     *)
(* optional field (clockIn, clockOut, approvedBy, ...) is a sequence of     *)
(* length 0 (absent) or 1 (present).                                       *)
(***************************************************************************)
EXTENDS Integers, Sequences, FiniteSets, TLC

VARIABLES now, tz, employees, users, departments, designations, attendance,
          leaves, nextLeaveId, res, procs

vars == <<now, tz, employees, users, departments, designations, attendance,
         leaves, nextLeaveId, res, procs>>

\* ------------------------------------------------------------------ bounds
MaxNow == 24
MaxRecords == 2
MaxLeaves == 1
MaxProcs == 2
MaxTokens == 2

\* ------------------------------------------------------- program constants
DayHours == 24
DefaultAnnual == 20
DefaultSick == 10
DefaultPersonal == 5
DefaultUnpaid == 0
HourMinutes == 60

\* --------------------------------------------------------------- input sets
TickHours == DayHours \div 2
TzOffsets == {0 - 6, 0, 6}
EmpIds == {1, 2}
NoId == 0

None == << >>
Some(x) == <<x>>
IsSome(o) == Len(o) = 1
Val(o) == o[1]

\* The authenticated principal the auth middleware attaches to a request:
\* role, email and the optionally linked employee (a bare id or a populated
\* record).  "a@x" and "b@x" are the e-mails of employees 1 and 2.
NoLink == [kind |-> "none", id |-> NoId]
Principals ==
  { [role |-> "admin",    email |-> "admin@x", link |-> NoLink],
    [role |-> "hr",       email |-> "a@x",     link |-> [kind |-> "bare", id |-> 1]],
    [role |-> "hr",       email |-> "old@x",   link |-> [kind |-> "populated", id |-> 1]],
    [role |-> "employee", email |-> "b@x",     link |-> NoLink],
    [role |-> "employee", email |-> "new@x",   link |-> [kind |-> "bare", id |-> 2]] }

\* no refresh token is stored for the account (refreshToken unset or null)
NoToken == 0

\* the user accounts behind the principals, in the order they were created
InitUsers ==
  << [email |-> "admin@x", role |-> "admin",    employeeId |-> NoId, isActive |-> TRUE,
      refreshToken |-> NoToken],
     [email |-> "a@x",     role |-> "hr",       employeeId |-> 1,    isActive |-> TRUE,
      refreshToken |-> NoToken],
     [email |-> "old@x",   role |-> "hr",       employeeId |-> 1,    isActive |-> TRUE,
      refreshToken |-> NoToken],
     [email |-> "b@x",     role |-> "employee", employeeId |-> NoId, isActive |-> TRUE,
      refreshToken |-> NoToken],
     [email |-> "new@x",   role |-> "employee", employeeId |-> 2,    isActive |-> TRUE,
      refreshToken |-> NoToken] >>

\* ------------------------------------------------------------ employee data
\* the seeded departments and designations; employee e works in department e
\* with designation e
InitDepartments == {1, 2}
InitDesignations == {1, 2}

InitEmployees ==
  [e \in EmpIds |->
     [email |-> IF e = 1 THEN "a@x" ELSE "b@x",
      status |-> "active",
      departmentId |-> e,
      designationId |-> e,
      leaveBalance |-> [annual |-> DefaultAnnual, sick |-> DefaultSick,
                        personal |-> DefaultPersonal, unpaid |-> DefaultUnpaid]]]

\* Employee.findOne({ email }): the id of the employee with that e-mail, or NoId
FindEmployeeByEmail(email) ==
  IF \E e \in DOMAIN employees : employees[e].email = email
  THEN CHOOSE e \in DOMAIN employees : employees[e].email = email
  ELSE NoId

\* typeof req.user.employeeId === 'object' ? req.user.employeeId._id : req.user.employeeId
Unwrap(link) == link.id

\* clockIn / clockOut: body employeeId, else the linked employee, else by e-mail
ResolveEmployee(p, bodyEmp) ==
  IF bodyEmp # NoId THEN bodyEmp
  ELSE IF p.link.kind # "none" THEN Unwrap(p.link)
  ELSE FindEmployeeByEmail(p.email)

\* ------------------------------------------------------------------- time
\* new Date(Date.UTC(now.getFullYear(), now.getMonth(), now.getDate())):
\* the UTC midnight labelled with the SERVER-LOCAL calendar date of n
Today(n) == ((n + tz) \div DayHours) * DayHours
Tomorrow(n) == Today(n) + DayHours

\* ------------------------------------------------------------- attendance
\* Math.round(num / den): the nearest integer, a half goes up
Round(num, den) == (2 * num + den) \div (2 * den)

\* slip: the hours are cut off after two decimals instead of rounded
TotalWorkHoursTruncated(doc, perHour) ==
  IF IsSome(doc.clockIn) /\ IsSome(doc.clockOut)
  THEN LET span == Val(doc.clockOut) - Val(doc.clockIn)
           pause == IF IsSome(doc.breakStart) /\ IsSome(doc.breakEnd)
                    THEN Val(doc.breakEnd) - Val(doc.breakStart) ELSE 0
       IN ((span - pause) * 100) \div perHour
  ELSE doc.totalWorkHours

\* attendanceSchema.pre('save'): Math.round(workMs / one hour * 100) / 100,
\* kept in hundredths of an hour; perHour is the number of time units of the
\* document's stamps in one hour
TotalWorkHours(doc, perHour) ==
  IF IsSome(doc.clockIn) /\ IsSome(doc.clockOut)
  THEN LET span == Val(doc.clockOut) - Val(doc.clockIn)
           pause == IF IsSome(doc.breakStart) /\ IsSome(doc.breakEnd)
                    THEN Val(doc.breakEnd) - Val(doc.breakStart) ELSE 0
       IN Round((span - pause) * 100, perHour)
  ELSE doc.totalWorkHours

\* the stamps of the stored records are in hours; no controller sets a break
WorkHours(r) == TotalWorkHours(r, 1)

PreSaveAttendance(r) == [r EXCEPT !.totalWorkHours = WorkHours(r)]

\* slip: the lookup compares the stored date with the instant, not the day window
InWindowExactNow(e, n) == { r \in attendance : r.employeeId = e /\ r.date = n }

\* Attendance.findOne({ employeeId, date: { $gte: today, $lt: tomorrow } })
InWindow(e, n) ==
  { r \in attendance : r.employeeId = e /\ r.date >= Today(n) /\ r.date < Tomorrow(n) }

\* the unique index { employeeId: 1, date: 1 }
DuplicateKey(e, d) == \E r \in attendance : r.employeeId = e /\ r.date = d

NewRecord(e, d, ci, co, st, src) ==
  PreSaveAttendance([employeeId |-> e, date |-> d, clockIn |-> ci, clockOut |-> co,
                     breakStart |-> None, breakEnd |-> None,
                     status |-> st, totalWorkHours |-> 0, src |-> src])

\* the answer of a handler; data is the list a list query returns
Respond(op, code, msg, e) ==
  [op |-> op, code |-> code, msg |-> msg, emp |-> e, data |-> {}]

\* slip: the duplicate-key error falls through to the generic 500 answer
ClockInDupAsServerError(e) == Respond("clockIn", 500, "ServerError", e)

\* error.code === 11000 in the catch block of clockIn
ClockInDupResponse(e) == Respond("clockIn", 400, "AlreadyClockedIn", e)

Tick ==
  /\ now + TickHours <= MaxNow
  /\ now' = now + TickHours
  /\ UNCHANGED <<tz, employees, users, departments, designations, attendance, leaves,
               nextLeaveId, res, procs>>

ClockIn(p, bodyEmp) ==
  LET e == ResolveEmployee(p, bodyEmp) IN
  /\ IF e = NoId
     THEN /\ res' = Respond("clockIn", 400, "Unlinked", e)
          /\ UNCHANGED attendance
     ELSE IF InWindow(e, now) # {}
     THEN /\ res' = Respond("clockIn", 400, "AlreadyClockedIn", e)
          /\ UNCHANGED attendance
     ELSE IF DuplicateKey(e, Today(now))
     THEN /\ res' = ClockInDupResponse(e)
          /\ UNCHANGED attendance
     ELSE /\ Cardinality(attendance) < MaxRecords
          /\ attendance' = attendance \cup
               {NewRecord(e, Today(now), Some(now), None, "present", "clockIn")}
          /\ res' = Respond("clockIn", 201, "Created", e)
  /\ UNCHANGED <<now, tz, departments, designations, users, employees, leaves, nextLeaveId, procs>>

\* slip: the clock-out also marks the day as present
StampClockOutPresent(r, n) ==
  PreSaveAttendance([r EXCEPT !.clockOut = Some(n), !.status = "present"])

\* attendance.clockOut = now; await attendance.save()
StampClockOut(r, n) == PreSaveAttendance([r EXCEPT !.clockOut = Some(n)])

ClockOut(p, bodyEmp) ==
  LET e == ResolveEmployee(p, bodyEmp) IN
  /\ IF e = NoId
     THEN /\ res' = Respond("clockOut", 400, "Unlinked", e)
          /\ UNCHANGED attendance
     ELSE IF InWindow(e, now) = {}
     THEN /\ res' = Respond("clockOut", 400, "NoClockInRecord", e)
          /\ UNCHANGED attendance
     ELSE \E r \in InWindow(e, now) :
            IF IsSome(r.clockOut)
            THEN /\ res' = Respond("clockOut", 400, "AlreadyClockedOut", e)
                 /\ UNCHANGED attendance
            ELSE /\ attendance' = (attendance \ {r}) \cup {StampClockOut(r, now)}
                 /\ res' = Respond("clockOut", 200, "OK", e)
  /\ UNCHANGED <<now, tz, departments, designations, users, employees, leaves, nextLeaveId, procs>>

\* request bodies of the manual entry: a day-aligned date without stamps, a
\* date that is not a midnight, a back-filled complete day, the next day
ManualBodies ==
  { [date |-> 0,  clockIn |-> None,    clockOut |-> None,     status |-> "absent"],
    [date |-> 12, clockIn |-> Some(12), clockOut |-> None,     status |-> "present"],
    [date |-> 0,  clockIn |-> Some(9), clockOut |-> Some(17), status |-> "present"],
    [date |-> 24, clockIn |-> None,    clockOut |-> None,     status |-> "present"] }

CreateAttendance(e, d, ci, co, st) ==
  /\ IF DuplicateKey(e, d)
     THEN /\ res' = Respond("createAttendance", 500, "ServerError", e)
          /\ UNCHANGED attendance
     ELSE /\ Cardinality(attendance) < MaxRecords
          /\ attendance' = attendance \cup {NewRecord(e, d, ci, co, st, "manual")}
          /\ res' = Respond("createAttendance", 201, "Created", e)
  /\ UNCHANGED <<now, tz, departments, designations, users, employees, leaves, nextLeaveId, procs>>

\* ------------------------------------------ the work-hours hook on its own
\* documents with stamps in minutes of one day, with and without a break,
\* saved directly through the model (as the tests and the seed do)
HookDocs ==
  { [clockIn |-> ci, clockOut |-> co, breakStart |-> bs, breakEnd |-> be,
     totalWorkHours |-> 0] :
      ci \in {None, Some(9 * HourMinutes)},
      co \in {None, Some(17 * HourMinutes), Some(17 * HourMinutes + 10),
              Some(17 * HourMinutes + 25), Some(8 * HourMinutes + 20)},
      bs \in {None, Some(12 * HourMinutes)},
      be \in {None, Some(12 * HourMinutes + 30), Some(12 * HourMinutes + 45)} }

SaveAttendanceDoc ==
  /\ res.op = "newAttendance"
  /\ res' = [Respond("preSaveAttendance", 0, "none", NoId) EXCEPT
               !.data = { [doc EXCEPT !.totalWorkHours = TotalWorkHours(doc, HourMinutes)] :
                            doc \in res.data }]
  /\ UNCHANGED <<now, tz, departments, designations, users, employees, attendance, leaves, nextLeaveId, procs>>

\* ---------------------------------------------- clock-in, request by request
\* The same handler cut at its awaits: the lookup (findOne) and the insert
\* (create) of one request are separate steps, so that requests interleave.
Procs == 1 .. MaxProcs
IdleProc == [pc |-> "idle", emp |-> NoId, today |-> 0, at |-> 0, code |-> 0, msg |-> "none",
             passed |-> FALSE]

ClockInLookup(q, p, bodyEmp) ==
  LET e == ResolveEmployee(p, bodyEmp) IN
  /\ procs[q].pc = "idle"
  /\ IF e = NoId
     THEN procs' = [procs EXCEPT ![q] =
             [IdleProc EXCEPT !.pc = "done", !.code = 400, !.msg = "Unlinked"]]
     ELSE IF InWindow(e, now) # {}
     THEN procs' = [procs EXCEPT ![q] =
             [pc |-> "done", emp |-> e, today |-> Today(now), at |-> now,
              code |-> 400, msg |-> "AlreadyClockedIn", passed |-> FALSE]]
     ELSE procs' = [procs EXCEPT ![q] =
             [pc |-> "insert", emp |-> e, today |-> Today(now), at |-> now,
              code |-> 0, msg |-> "none", passed |-> TRUE]]
  /\ UNCHANGED <<now, tz, departments, designations, users, employees, attendance, leaves, nextLeaveId, res>>

ClockInInsert(q) ==
  LET e == procs[q].emp IN
  /\ procs[q].pc = "insert"
  /\ IF DuplicateKey(e, procs[q].today)
     THEN /\ procs' = [procs EXCEPT ![q].pc = "done",
                                    ![q].code = ClockInDupResponse(e).code,
                                    ![q].msg = ClockInDupResponse(e).msg]
          /\ UNCHANGED attendance
     ELSE /\ attendance' = attendance \cup
               {NewRecord(e, procs[q].today, Some(procs[q].at), None, "present", "clockIn")}
          /\ procs' = [procs EXCEPT ![q].pc = "done", ![q].code = 201, ![q].msg = "Created"]
  /\ UNCHANGED <<now, tz, departments, designations, users, employees, leaves, nextLeaveId, res>>

\* --------------------------------------------- clock-out, request by request
\* clockOut cut at its awaits: the lookup (findOne) with the clockOut test, and
\* the save of the loaded document; today holds the date of the loaded record
ClockOutLookup(q, p, bodyEmp) ==
  LET e == ResolveEmployee(p, bodyEmp) IN
  /\ procs[q].pc = "idle"
  /\ IF e = NoId
     THEN procs' = [procs EXCEPT ![q] =
             [IdleProc EXCEPT !.pc = "done", !.code = 400, !.msg = "Unlinked"]]
     ELSE IF InWindow(e, now) = {}
     THEN procs' = [procs EXCEPT ![q] =
             [IdleProc EXCEPT !.pc = "done", !.emp = e, !.today = Today(now), !.at = now,
                              !.code = 400, !.msg = "NoClockInRecord"]]
     ELSE \E r \in InWindow(e, now) :
            IF IsSome(r.clockOut)
            THEN procs' = [procs EXCEPT ![q] =
                    [pc |-> "done", emp |-> e, today |-> r.date, at |-> now,
                     code |-> 400, msg |-> "AlreadyClockedOut", passed |-> FALSE]]
            ELSE procs' = [procs EXCEPT ![q] =
                    [pc |-> "save", emp |-> e, today |-> r.date, at |-> now,
                     code |-> 0, msg |-> "none", passed |-> TRUE]]
  /\ UNCHANGED <<now, tz, departments, designations, users, employees, attendance, leaves,
                 nextLeaveId, res>>

\* attendance.save() writes the modified paths of the loaded document to the
\* stored record of the same _id, whatever that record holds by now
ClockOutSave(q) ==
  /\ procs[q].pc = "save"
  /\ \E r \in attendance :
       /\ r.employeeId = procs[q].emp
       /\ r.date = procs[q].today
       /\ attendance' = (attendance \ {r}) \cup {StampClockOut(r, procs[q].at)}
  /\ procs' = [procs EXCEPT ![q].pc = "done", ![q].code = 200, ![q].msg = "OK"]
  /\ UNCHANGED <<now, tz, departments, designations, users, employees, leaves,
                 nextLeaveId, res>>

\* ------------------------------------------------------------------ leave
LeaveTypes == {"annual", "sick", "personal", "unpaid", "maternity", "paternity"}
\* the counters of employeeSchema.leaveBalance
BalanceKeys == {"annual", "sick", "personal", "unpaid"}

\* leave.leaveType.toLowerCase().replace('-', '')
LeaveTypeKey(t) == t

Abs(x) == IF x < 0 THEN 0 - x ELSE x
CeilDiv(a, b) == (a + b - 1) \div b

\* leaveSchema.pre('save'): Math.ceil(|end - start| / one day) + 1
TotalDays(s, e) == CeilDiv(Abs(e - s), DayHours) + 1
PreSaveLeave(l) == [l EXCEPT !.totalDays = TotalDays(l.startDate, l.endDate)]

\* slip: the linked employee is skipped
ResolveLeaveEmployeeNoLink(p, bodyEmp) ==
  IF bodyEmp # NoId THEN bodyEmp
  ELSE FindEmployeeByEmail(p.email)

\* createLeave: body employeeId, else the linked employee, else by e-mail
ResolveLeaveEmployee(p, bodyEmp) ==
  IF bodyEmp # NoId THEN bodyEmp
  ELSE IF p.link.kind # "none" THEN Unwrap(p.link)
  ELSE FindEmployeeByEmail(p.email)

\* the document Leave.create({ ...req.body, employeeId }) stores for a body
\* that passes validation
NewLeave(e, body) ==
  PreSaveLeave([employeeId |-> e,
                leaveType |-> body.leaveType,
                startDate |-> body.startDate,
                endDate |-> body.endDate,
                totalDays |-> Val(body.totalDays),
                status |-> IF IsSome(body.status) THEN Val(body.status) ELSE "pending",
                approvedBy |-> None,
                approvedAt |-> None])

\* Leave.create({ ...req.body, employeeId }): every schema path of the body is
\* stored; status defaults to 'pending'; totalDays is required by validation,
\* which runs before the pre-save hook overwrites it
CreateLeave(p, body) ==
  LET e == ResolveLeaveEmployee(p, body.employeeId) IN
  /\ nextLeaveId <= MaxLeaves
  /\ IF e = NoId
     THEN /\ res' = Respond("createLeave", 400, "Unlinked", e)
          /\ UNCHANGED <<leaves, nextLeaveId>>
     ELSE IF ~IsSome(body.totalDays)
     THEN /\ res' = Respond("createLeave", 500, "ServerError", e)
          /\ UNCHANGED <<leaves, nextLeaveId>>
     ELSE /\ leaves' = leaves @@ (nextLeaveId :> NewLeave(e, body))
          /\ nextLeaveId' = nextLeaveId + 1
          /\ res' = Respond("createLeave", 201, "Created", e)
  /\ UNCHANGED <<now, tz, departments, designations, users, employees, attendance, procs>>

\* Leave.findByIdAndUpdate(id, req.body, { new: true, runValidators: true }):
\* the body's paths are $set as they are; no save hook runs
ApplyPatch(l, patch) ==
  [l EXCEPT !.status = IF IsSome(patch.status) THEN Val(patch.status) ELSE @,
            !.startDate = IF IsSome(patch.startDate) THEN Val(patch.startDate) ELSE @,
            !.endDate = IF IsSome(patch.endDate) THEN Val(patch.endDate) ELSE @,
            !.totalDays = IF IsSome(patch.totalDays) THEN Val(patch.totalDays) ELSE @]

UpdateLeave(id, patch) ==
  /\ IF id \notin DOMAIN leaves
     THEN /\ res' = Respond("updateLeave", 404, "NotFound", NoId)
          /\ UNCHANGED leaves
     ELSE IF leaves[id].status # "pending"
     THEN /\ res' = Respond("updateLeave", 400, "AlreadyProcessed", NoId)
          /\ UNCHANGED leaves
     ELSE /\ leaves' = [leaves EXCEPT ![id] = ApplyPatch(@, patch)]
          /\ res' = Respond("updateLeave", 200, "OK", NoId)
  /\ UNCHANGED <<now, tz, departments, designations, users, employees, attendance, nextLeaveId, procs>>

OptId(e) == IF e = NoId THEN None ELSE Some(e)

\* Employee.findOne({ email: req.user.email }) in approveLeave / rejectLeave
Approver(p) == FindEmployeeByEmail(p.email)

\* approver && leave.employeeId.toString() === approver._id.toString()
IsSelf(p, l) == Approver(p) # NoId /\ l.employeeId = Approver(p)

\* slip: the deduction always hits the annual counter
DeductFromAnnual(l) ==
  IF l.employeeId \in DOMAIN employees
  THEN [employees EXCEPT ![l.employeeId].leaveBalance.annual = @ - l.totalDays]
  ELSE employees

\* the deduction after the approval was saved
Deduct(l) ==
  IF l.employeeId \in DOMAIN employees /\ LeaveTypeKey(l.leaveType) \in BalanceKeys
  THEN [employees EXCEPT ![l.employeeId].leaveBalance[LeaveTypeKey(l.leaveType)] =
                            @ - l.totalDays]
  ELSE employees

\* slip: the self-approval guard is applied before the status guard
ApproveLeaveSelfFirst(id, p) ==
  /\ p.role \in {"admin", "hr"}
  /\ IF id \notin DOMAIN leaves
     THEN /\ res' = Respond("approveLeave", 404, "NotFound", Approver(p))
          /\ UNCHANGED <<leaves, employees>>
     ELSE IF IsSelf(p, leaves[id])
     THEN /\ res' = Respond("approveLeave", 400, "SelfApproval", Approver(p))
          /\ UNCHANGED <<leaves, employees>>
     ELSE IF leaves[id].status # "pending"
     THEN /\ res' = Respond("approveLeave", 400, "AlreadyProcessed", Approver(p))
          /\ UNCHANGED <<leaves, employees>>
     ELSE /\ leaves' = [leaves EXCEPT ![id] =
               PreSaveLeave([@ EXCEPT !.status = "approved",
                                      !.approvedBy = OptId(Approver(p)),
                                      !.approvedAt = Some(now)])]
          /\ employees' = Deduct(PreSaveLeave(leaves[id]))
          /\ res' = Respond("approveLeave", 200, "OK", Approver(p))
  /\ UNCHANGED <<now, tz, departments, designations, users, attendance, nextLeaveId, procs>>

ApproveLeave(id, p) ==
  /\ p.role \in {"admin", "hr"}
  /\ IF id \notin DOMAIN leaves
     THEN /\ res' = Respond("approveLeave", 404, "NotFound", Approver(p))
          /\ UNCHANGED <<leaves, employees>>
     ELSE IF leaves[id].status # "pending"
     THEN /\ res' = Respond("approveLeave", 400, "AlreadyProcessed", Approver(p))
          /\ UNCHANGED <<leaves, employees>>
     ELSE IF IsSelf(p, leaves[id])
     THEN /\ res' = Respond("approveLeave", 400, "SelfApproval", Approver(p))
          /\ UNCHANGED <<leaves, employees>>
     ELSE LET saved == PreSaveLeave([leaves[id] EXCEPT !.status = "approved",
                                                      !.approvedBy = OptId(Approver(p)),
                                                      !.approvedAt = Some(now)]) IN
          /\ leaves' = [leaves EXCEPT ![id] = saved]
          /\ employees' = Deduct(saved)
          /\ res' = Respond("approveLeave", 200, "OK", Approver(p))
  /\ UNCHANGED <<now, tz, departments, designations, users, attendance, nextLeaveId, procs>>

RejectLeave(id, p) ==
  /\ p.role \in {"admin", "hr"}
  /\ IF id \notin DOMAIN leaves
     THEN /\ res' = Respond("rejectLeave", 404, "NotFound", Approver(p))
          /\ UNCHANGED leaves
     ELSE IF leaves[id].status # "pending"
     THEN /\ res' = Respond("rejectLeave", 400, "AlreadyProcessed", Approver(p))
          /\ UNCHANGED leaves
     ELSE IF IsSelf(p, leaves[id])
     THEN /\ res' = Respond("rejectLeave", 400, "SelfRejection", Approver(p))
          /\ UNCHANGED leaves
     ELSE /\ leaves' = [leaves EXCEPT ![id] =
               PreSaveLeave([@ EXCEPT !.status = "rejected",
                                      !.approvedBy = OptId(Approver(p)),
                                      !.approvedAt = Some(now)])]
          /\ res' = Respond("rejectLeave", 200, "OK", Approver(p))
  /\ UNCHANGED <<now, tz, departments, designations, users, employees, attendance, nextLeaveId, procs>>

DeleteLeave(id) ==
  /\ IF id \notin DOMAIN leaves
     THEN /\ res' = Respond("deleteLeave", 404, "NotFound", NoId)
          /\ UNCHANGED leaves
     ELSE IF leaves[id].status # "pending"
     THEN /\ res' = Respond("deleteLeave", 400, "AlreadyProcessed", NoId)
          /\ UNCHANGED leaves
     ELSE /\ leaves' = [i \in DOMAIN leaves \ {id} |-> leaves[i]]
          /\ res' = Respond("deleteLeave", 200, "OK", NoId)
  /\ UNCHANGED <<now, tz, departments, designations, users, employees, attendance, nextLeaveId, procs>>

\* ------------------------------------------------------------ specification
NoRes == Respond("none", 0, "none", NoId)

Init ==
  /\ now = 0
  /\ tz \in TzOffsets
  /\ employees = InitEmployees
  /\ users = InitUsers
  /\ departments = InitDepartments
  /\ designations = InitDesignations
  /\ attendance = {}
  /\ leaves = << >>
  /\ nextLeaveId = 1
  /\ res = NoRes
  /\ procs = [q \in Procs |-> IdleProc]

BodyEmps == {NoId} \cup EmpIds

DoClockIn == \E p \in Principals, b \in BodyEmps : ClockIn(p, b)
DoClockOut == \E p \in Principals, b \in BodyEmps : ClockOut(p, b)
DoCreateAttendance ==
  \E e \in EmpIds, b \in ManualBodies :
     CreateAttendance(e, b.date, b.clockIn, b.clockOut, b.status)

Next ==
  \/ Tick
  \/ DoClockIn
  \/ DoClockOut
  \/ DoCreateAttendance

Spec == Init /\ [][Next]_vars

InitHours ==
  /\ now = 0
  /\ tz \in TzOffsets
  /\ employees = InitEmployees
  /\ users = InitUsers
  /\ departments = InitDepartments
  /\ designations = InitDesignations
  /\ attendance = {}
  /\ leaves = << >>
  /\ nextLeaveId = 1
  /\ res \in { [Respond("newAttendance", 0, "none", NoId) EXCEPT !.data = {doc}] :
                 doc \in HookDocs }
  /\ procs = [q \in Procs |-> IdleProc]

NextHours ==
  \/ SaveAttendanceDoc
  \/ Tick
  \/ DoClockIn
  \/ DoClockOut
  \/ DoCreateAttendance

SpecWorkHours == InitHours /\ [][NextHours]_vars

\* concurrent clock-in requests
DoClockInLookup == \E q \in Procs, p \in Principals, b \in BodyEmps : ClockInLookup(q, p, b)
DoClockInInsert == \E q \in Procs : ClockInInsert(q)

NextRace ==
  \/ Tick
  \/ DoClockInLookup
  \/ DoClockInInsert

SpecClockRace == Init /\ [][NextRace]_vars

Admins == { p \in Principals : p.role = "admin" }
DoClockInFor == \E p \in Admins, e \in EmpIds : ClockIn(p, e)
DoClockOutLookup == \E q \in Procs, p \in Admins, e \in EmpIds : ClockOutLookup(q, p, e)
DoClockOutSave == \E q \in Procs : ClockOutSave(q)

NextClockOutRace ==
  \/ Tick
  \/ DoClockInFor
  \/ DoClockOutLookup
  \/ DoClockOutSave

SpecClockOutRace == Init /\ [][NextClockOutRace]_vars

\* ---------------------------------------------------------- leave workflow
\* request bodies of createLeave and updateLeave
LeaveIds == 1 .. MaxLeaves
DatePairs == {<<0, 60>>}
CreateBodies ==
  { [employeeId |-> e, leaveType |-> t, startDate |-> d[1], endDate |-> d[2],
     totalDays |-> n, status |-> st] :
      e \in {NoId, 2}, t \in LeaveTypes, d \in DatePairs,
      n \in {None, Some(7)}, st \in {None, Some("approved")} }
NoPatch == [status |-> None, startDate |-> None, endDate |-> None, totalDays |-> None]
Patches ==
  { NoPatch,
    [NoPatch EXCEPT !.endDate = Some(48)],
    [NoPatch EXCEPT !.totalDays = Some(7)],
    [NoPatch EXCEPT !.status = Some("cancelled")] }

DoCreateLeave == \E p \in Principals, body \in CreateBodies : CreateLeave(p, body)
DoUpdateLeave == \E id \in LeaveIds, patch \in Patches : UpdateLeave(id, patch)
DoApproveLeave == \E id \in LeaveIds, p \in Principals : ApproveLeave(id, p)
DoRejectLeave == \E id \in LeaveIds, p \in Principals : RejectLeave(id, p)
DoDeleteLeave == \E id \in LeaveIds : DeleteLeave(id)

NextLeave ==
  \/ DoCreateLeave
  \/ DoUpdateLeave
  \/ DoApproveLeave
  \/ DoRejectLeave
  \/ DoDeleteLeave

InitLeave == Init /\ tz = 0

SpecLeave == InitLeave /\ [][NextLeave]_vars

\* ------------------------------------------------------------ list queries
\* the employeeId condition getAttendance / getLeaves put into the query:
\* for role 'employee' the employee found by e-mail (no condition when none
\* is found), for the other roles the employeeId filter of the request
ListFilter(p, filterEmp) ==
  IF p.role = "employee"
  THEN OptId(FindEmployeeByEmail(p.email))
  ELSE OptId(filterEmp)

\* Attendance.find(query) / Leave.find(query) on the employeeId condition
ListMatches(p, filterEmp, e) ==
  IsSome(ListFilter(p, filterEmp)) => e = Val(ListFilter(p, filterEmp))

\* the request without date / status filter; data is the union of all pages
GetAttendance(p, filterEmp) ==
  /\ res' = [Respond("getAttendance", 200, "OK", NoId) EXCEPT
               !.data = { r \in attendance : ListMatches(p, filterEmp, r.employeeId) }]
  /\ UNCHANGED <<now, tz, departments, designations, users, employees, attendance, leaves, nextLeaveId, procs>>

GetLeaves(p, filterEmp) ==
  /\ res' = [Respond("getLeaves", 200, "OK", NoId) EXCEPT
               !.data = { leaves[id] : id \in
                            { i \in DOMAIN leaves :
                                ListMatches(p, filterEmp, leaves[i].employeeId) } }]
  /\ UNCHANGED <<now, tz, departments, designations, users, employees, attendance, leaves, nextLeaveId, procs>>

\* clock-in / clock-out, leave creation and the two lists
AccessBodies ==
  { b \in CreateBodies : b.leaveType = "annual" /\ IsSome(b.totalDays) /\ b.status = None }

DoCreateLeaveAccess == \E p \in Principals, body \in AccessBodies : CreateLeave(p, body)
DoGetAttendance == \E p \in Principals, f \in BodyEmps : GetAttendance(p, f)
DoGetLeaves == \E p \in Principals, f \in BodyEmps : GetLeaves(p, f)

NextAccess ==
  \/ DoClockIn
  \/ DoClockOut
  \/ DoCreateLeaveAccess
  \/ DoGetAttendance
  \/ DoGetLeaves

SpecAccess == InitLeave /\ [][NextAccess]_vars

\* ------------------------------------- leave decisions, request by request
\* approveLeave, rejectLeave and deleteLeave cut at their awaits: the load
\* (findById with the guards that follow it), the save of the decision, the
\* load and the save of the employee's balance, the removal.  The approver
\* lookup is taken together with the load: no step here changes an e-mail.
LeaveDone(op, id, code, msg, ded) ==
  [pc |-> "done", op |-> op, id |-> id, doc |-> None, bal |-> 0,
   code |-> code, msg |-> msg, ded |-> ded]

LeaveAt(pc, op, id, doc, bal) ==
  [pc |-> pc, op |-> op, id |-> id, doc |-> Some(doc), bal |-> bal,
   code |-> 0, msg |-> "none", ded |-> 0]

SelfMsg(op) == IF op = "approveLeave" THEN "SelfApproval" ELSE "SelfRejection"
Decision(op) == IF op = "approveLeave" THEN "approved" ELSE "rejected"

LeaveLoad(q, op, id, p) ==
  /\ procs[q].pc = "idle"
  /\ op \in {"approveLeave", "rejectLeave"} => p.role \in {"admin", "hr"}
  /\ procs' = [procs EXCEPT ![q] =
       IF id \notin DOMAIN leaves
       THEN LeaveDone(op, id, 404, "NotFound", 0)
       ELSE IF leaves[id].status # "pending"
       THEN LeaveDone(op, id, 400, "AlreadyProcessed", 0)
       ELSE IF op = "deleteLeave"
       THEN LeaveAt("remove", op, id, leaves[id], 0)
       ELSE IF IsSelf(p, leaves[id])
       THEN LeaveDone(op, id, 400, SelfMsg(op), 0)
       ELSE LeaveAt("save", op, id,
                    [leaves[id] EXCEPT !.status = Decision(op),
                                       !.approvedBy = OptId(Approver(p)),
                                       !.approvedAt = Some(now)], 0)]
  /\ UNCHANGED <<now, tz, departments, designations, users, employees, attendance, leaves, nextLeaveId, res>>

\* leave.save(): the pre-save hook runs, then the modified paths are written
\* to the stored document with that id; DocumentNotFoundError when it is gone
LeaveSave(q) ==
  LET id == procs[q].id
      op == procs[q].op
      doc == Val(procs[q].doc)
      saved == PreSaveLeave(doc) IN
  /\ procs[q].pc = "save"
  /\ IF id \notin DOMAIN leaves
     THEN /\ procs' = [procs EXCEPT ![q] = LeaveDone(op, id, 500, "ServerError", 0)]
          /\ UNCHANGED leaves
     ELSE /\ leaves' = [leaves EXCEPT ![id] =
               [@ EXCEPT !.status = saved.status,
                         !.approvedBy = saved.approvedBy,
                         !.approvedAt = saved.approvedAt,
                         !.totalDays = IF saved.totalDays # doc.totalDays
                                       THEN saved.totalDays ELSE @]]
          /\ procs' = [procs EXCEPT ![q] =
               IF op = "approveLeave"
               THEN LeaveAt("deduct", op, id, saved, 0)
               ELSE LeaveDone(op, id, 200, "OK", 0)]
  /\ UNCHANGED <<now, tz, departments, designations, users, employees, attendance, nextLeaveId, res>>

\* Employee.findById(leave.employeeId) and the subtraction on the loaded copy
LeaveDeductLoad(q) ==
  LET doc == Val(procs[q].doc)
      e == doc.employeeId
      key == LeaveTypeKey(doc.leaveType) IN
  /\ procs[q].pc = "deduct"
  /\ procs' = [procs EXCEPT ![q] =
       IF e \in DOMAIN employees /\ key \in BalanceKeys
       THEN LeaveAt("deductSave", procs[q].op, procs[q].id, doc,
                    employees[e].leaveBalance[key] - doc.totalDays)
       ELSE LeaveDone(procs[q].op, procs[q].id, 200, "OK", 0)]
  /\ UNCHANGED <<now, tz, departments, designations, users, employees, attendance, leaves, nextLeaveId, res>>

\* employee.save(): the counter is set to the value computed on the copy
LeaveDeductSave(q) ==
  LET doc == Val(procs[q].doc)
      e == doc.employeeId
      key == LeaveTypeKey(doc.leaveType) IN
  /\ procs[q].pc = "deductSave"
  /\ employees' = [employees EXCEPT ![e].leaveBalance[key] = procs[q].bal]
  /\ procs' = [procs EXCEPT ![q] =
       LeaveDone(procs[q].op, procs[q].id, 200, "OK", doc.totalDays)]
  /\ UNCHANGED <<now, tz, departments, designations, users, attendance, leaves, nextLeaveId, res>>

\* leave.deleteOne(): removes the document with that id, whatever it holds now
LeaveRemove(q) ==
  LET id == procs[q].id IN
  /\ procs[q].pc = "remove"
  /\ leaves' = [i \in DOMAIN leaves \ {id} |-> leaves[i]]
  /\ procs' = [procs EXCEPT ![q] = LeaveDone(procs[q].op, id, 200, "OK", 0)]
  /\ UNCHANGED <<now, tz, departments, designations, users, employees, attendance, nextLeaveId, res>>

RaceBodies ==
  { b \in CreateBodies : /\ b.leaveType = "annual" /\ b.employeeId = 2
                         /\ IsSome(b.totalDays) /\ b.status = None }
RaceApprovers == { p \in Principals : p.role = "admin" \/ p.email = "a@x" }
LeaveOps == {"approveLeave", "rejectLeave", "deleteLeave"}

DoCreateLeaveRace == \E p \in RaceApprovers, body \in RaceBodies : CreateLeave(p, body)
DoLeaveLoad ==
  \E q \in Procs, op \in LeaveOps, id \in LeaveIds, p \in RaceApprovers :
     LeaveLoad(q, op, id, p)
DoLeaveSave == \E q \in Procs : LeaveSave(q)
DoLeaveDeductLoad == \E q \in Procs : LeaveDeductLoad(q)
DoLeaveDeductSave == \E q \in Procs : LeaveDeductSave(q)
DoLeaveRemove == \E q \in Procs : LeaveRemove(q)

NextLeaveRace ==
  \/ DoCreateLeaveRace
  \/ DoLeaveLoad
  \/ DoLeaveSave
  \/ DoLeaveDeductLoad
  \/ DoLeaveDeductSave
  \/ DoLeaveRemove

SpecLeaveRace == InitLeave /\ [][NextLeaveRace]_vars

\* two approvals side by side: the state after two createLeave requests for
\* the same employee and leave type, both still pending
PendingPair ==
  LET body == CHOOSE b \in RaceBodies : TRUE IN
  (1 :> NewLeave(body.employeeId, body)) @@ (2 :> NewLeave(body.employeeId, body))

InitApproveRace ==
  /\ now = 0
  /\ tz = 0
  /\ employees = InitEmployees
  /\ users = InitUsers
  /\ departments = InitDepartments
  /\ designations = InitDesignations
  /\ attendance = {}
  /\ leaves = PendingPair
  /\ nextLeaveId = Len(PendingPair) + 1
  /\ res = NoRes
  /\ procs = [q \in Procs |-> IdleProc]

DoApproveLoad ==
  \E q \in Procs, id \in DOMAIN PendingPair, p \in RaceApprovers :
     LeaveLoad(q, "approveLeave", id, p)

NextApproveRace ==
  \/ DoApproveLoad
  \/ DoLeaveSave
  \/ DoLeaveDeductLoad
  \/ DoLeaveDeductSave

SpecApproveRace == InitApproveRace /\ [][NextApproveRace]_vars

\* a storage fault in one of the awaits of approveLeave (leave.save(),
\* Employee.findById, employee.save()) throws into the catch block: 500, and
\* what was written before stays written
LeaveFault(q) ==
  /\ procs[q].pc \in {"save", "deduct", "deductSave"}
  /\ procs' = [procs EXCEPT ![q] =
       LeaveDone(procs[q].op, procs[q].id, 500, "ServerError", 0)]
  /\ UNCHANGED <<now, tz, departments, designations, users, employees, attendance, leaves,
                 nextLeaveId, res>>

DoLeaveFault == \E q \in Procs : LeaveFault(q)

NextApproveFault ==
  \/ DoApproveLoad
  \/ DoLeaveSave
  \/ DoLeaveDeductLoad
  \/ DoLeaveDeductSave
  \/ DoLeaveFault

SpecApproveFault == InitApproveRace /\ [][NextApproveFault]_vars

\* --------------------------------------------------------------- employees
\* String.prototype.toLowerCase and the schema's lowercase setter, on the
\* e-mails the requests use
Lower(email) == IF email = "C@x" THEN "c@x" ELSE email

DefaultBalance ==
  [annual |-> DefaultAnnual, sick |-> DefaultSick,
   personal |-> DefaultPersonal, unpaid |-> DefaultUnpaid]

\* Employee.findOne({ email, status: { $ne: 'terminated' } })
ActiveWithEmail(email) ==
  { e \in DOMAIN employees :
      employees[e].email = email /\ employees[e].status # "terminated" }

\* Employee.findOne({ email, status: 'terminated' })
TerminatedWithEmail(email) ==
  { e \in DOMAIN employees :
      employees[e].email = email /\ employees[e].status = "terminated" }

\* User.findOne({ email })
UsersWithEmail(email) == { u \in DOMAIN users : users[u].email = email }

NewUser(body, e) ==
  [email |-> body.email, role |-> "employee", employeeId |-> e, isActive |-> TRUE,
   refreshToken |-> NoToken]

\* slip: a terminated employee with the e-mail is not looked for
CreateEmployeeNoReactivation(body) ==
  LET email == Lower(body.email)
      id == Cardinality(DOMAIN employees) + 1 IN
  /\ IF ActiveWithEmail(email) # {}
     THEN /\ res' = Respond("createEmployee", 400, "EmployeeExists", NoId)
          /\ UNCHANGED <<employees, users>>
     ELSE IF body.createAccount /\ UsersWithEmail(email) # {}
     THEN /\ res' = Respond("createEmployee", 400, "UserExists", NoId)
          /\ UNCHANGED <<employees, users>>
     ELSE /\ employees' = employees @@ (id :>
               [email |-> email,
                status |-> IF IsSome(body.status) THEN Val(body.status) ELSE "active",
                departmentId |-> IF IsSome(body.departmentId)
                                 THEN Val(body.departmentId) ELSE NoId,
                designationId |-> IF IsSome(body.designationId)
                                  THEN Val(body.designationId) ELSE NoId,
                leaveBalance |-> IF IsSome(body.leaveBalance)
                                 THEN Val(body.leaveBalance) ELSE DefaultBalance])
          /\ users' = IF body.createAccount THEN Append(users, NewUser(body, id))
                      ELSE users
          /\ res' = Respond("createEmployee", 201, "Created", id)
  /\ UNCHANGED <<now, tz, departments, designations, attendance, leaves, nextLeaveId, procs>>

CreateEmployee(body) ==
  LET email == Lower(body.email)
      id == Cardinality(DOMAIN employees) + 1 IN
  /\ IF ActiveWithEmail(email) # {}
     THEN /\ res' = Respond("createEmployee", 400, "EmployeeExists", NoId)
          /\ UNCHANGED <<employees, users>>
     ELSE IF TerminatedWithEmail(email) # {}
     THEN \E e \in TerminatedWithEmail(email) :
            /\ employees' = [employees EXCEPT ![e] =
                 [email |-> email,
                  status |-> "active",
                  departmentId |-> IF IsSome(body.departmentId)
                                   THEN Val(body.departmentId) ELSE @.departmentId,
                  designationId |-> IF IsSome(body.designationId)
                                    THEN Val(body.designationId) ELSE @.designationId,
                  leaveBalance |-> IF IsSome(body.leaveBalance)
                                   THEN Val(body.leaveBalance) ELSE @.leaveBalance]]
            /\ IF ~body.createAccount
               THEN users' = users
               ELSE IF UsersWithEmail(email) # {}
               THEN \E u \in UsersWithEmail(email) :
                      users' = [users EXCEPT ![u].isActive = TRUE,
                                             ![u].employeeId = e]
               ELSE users' = Append(users, NewUser(body, e))
            /\ res' = Respond("createEmployee", 200, "Reactivated", e)
     ELSE IF body.createAccount /\ UsersWithEmail(email) # {}
     THEN /\ res' = Respond("createEmployee", 400, "UserExists", NoId)
          /\ UNCHANGED <<employees, users>>
     ELSE /\ employees' = employees @@ (id :>
               [email |-> email,
                status |-> IF IsSome(body.status) THEN Val(body.status) ELSE "active",
                departmentId |-> IF IsSome(body.departmentId)
                                 THEN Val(body.departmentId) ELSE NoId,
                designationId |-> IF IsSome(body.designationId)
                                  THEN Val(body.designationId) ELSE NoId,
                leaveBalance |-> IF IsSome(body.leaveBalance)
                                 THEN Val(body.leaveBalance) ELSE DefaultBalance])
          /\ users' = IF body.createAccount THEN Append(users, NewUser(body, id))
                      ELSE users
          /\ res' = Respond("createEmployee", 201, "Created", id)
  /\ UNCHANGED <<now, tz, departments, designations, attendance, leaves, nextLeaveId, procs>>

\* Employee.findByIdAndUpdate(id, req.body, ...): the body's paths are $set
UpdateEmployee(id, patch) ==
  /\ IF id \notin DOMAIN employees
     THEN /\ res' = Respond("updateEmployee", 404, "NotFound", NoId)
          /\ UNCHANGED employees
     ELSE /\ employees' = [employees EXCEPT ![id] =
               [@ EXCEPT !.status = IF IsSome(patch.status) THEN Val(patch.status) ELSE @,
                         !.leaveBalance = IF IsSome(patch.leaveBalance)
                                          THEN Val(patch.leaveBalance) ELSE @]]
          /\ res' = Respond("updateEmployee", 200, "OK", id)
  /\ UNCHANGED <<now, tz, departments, designations, users, attendance, leaves, nextLeaveId, procs>>

\* slip: the user account is left as it is
DeactivateNone(id) == {users}

\* User.findOneAndUpdate({ employeeId }, { isActive: false }): one of the
\* users linked to the employee, none when there is none
DeactivateLinked(id) ==
  IF \E u \in DOMAIN users : users[u].employeeId = id
  THEN { [users EXCEPT ![u].isActive = FALSE] :
           u \in { v \in DOMAIN users : users[v].employeeId = id } }
  ELSE {users}

DeleteEmployee(id) ==
  /\ IF id \notin DOMAIN employees
     THEN /\ res' = Respond("deleteEmployee", 404, "NotFound", NoId)
          /\ UNCHANGED <<employees, users>>
     ELSE /\ employees' = [employees EXCEPT ![id].status = "terminated"]
          /\ users' \in DeactivateLinked(id)
          /\ res' = Respond("deleteEmployee", 200, "OK", id)
  /\ UNCHANGED <<now, tz, departments, designations, attendance, leaves, nextLeaveId, procs>>

\* today.setHours(0, 0, 0, 0): the instant of the server-local midnight
LocalMidnight(n) == Today(n) - tz

\* slip: the rate is cut off instead of rounded
AttendanceStatsTruncated ==
  LET presentToday ==
        Cardinality({ r \in attendance :
                        /\ r.date >= LocalMidnight(now)
                        /\ r.date < LocalMidnight(now) + DayHours
                        /\ r.status = "present" })
      totalEmployees ==
        Cardinality({ e \in DOMAIN employees : employees[e].status # "terminated" })
  IN [presentToday |-> presentToday,
      absentToday |-> totalEmployees - presentToday,
      totalEmployees |-> totalEmployees,
      attendanceRate |-> IF totalEmployees > 0
                         THEN (presentToday * 100) \div totalEmployees
                         ELSE 0]

\* getAttendanceStats without the weekly grouping
AttendanceStats ==
  LET presentToday ==
        Cardinality({ r \in attendance :
                        /\ r.date >= LocalMidnight(now)
                        /\ r.date < LocalMidnight(now) + DayHours
                        /\ r.status = "present" })
      totalEmployees ==
        Cardinality({ e \in DOMAIN employees : employees[e].status # "terminated" })
  IN [presentToday |-> presentToday,
      absentToday |-> totalEmployees - presentToday,
      totalEmployees |-> totalEmployees,
      attendanceRate |-> IF totalEmployees > 0
                         THEN Round(presentToday * 100, totalEmployees)
                         ELSE 0]

GetAttendanceStats ==
  /\ res' = [Respond("getAttendanceStats", 200, "OK", NoId) EXCEPT
               !.data = {AttendanceStats}]
  /\ UNCHANGED <<now, tz, departments, designations, users, employees, attendance, leaves, nextLeaveId, procs>>

\* request bodies of createEmployee and updateEmployee
OtherBalance == [DefaultBalance EXCEPT !.annual = DefaultAnnual + 5]
NoEmployeeBody ==
  [email |-> "a@x", status |-> None, leaveBalance |-> None, createAccount |-> FALSE,
   departmentId |-> None, designationId |-> None]
EmployeeBodies ==
  { [NoEmployeeBody EXCEPT !.createAccount = TRUE],
    [NoEmployeeBody EXCEPT !.leaveBalance = Some(OtherBalance)],
    [NoEmployeeBody EXCEPT !.email = "c@x", !.createAccount = TRUE],
    [NoEmployeeBody EXCEPT !.email = "C@x", !.status = Some("inactive")] }
NoEmployeePatch == [status |-> None, leaveBalance |-> None]
BalancePatches == { [NoEmployeePatch EXCEPT !.leaveBalance = Some(OtherBalance)] }
StatusPatches == { [NoEmployeePatch EXCEPT !.status = Some("inactive")] }
EmployeeIds == 1 .. (Cardinality(EmpIds) + 1)

DoCreateEmployee == \E body \in EmployeeBodies : CreateEmployee(body)
DoUpdateEmployee == \E id \in EmployeeIds, patch \in BalancePatches : UpdateEmployee(id, patch)
DoDeleteEmployee == \E id \in EmployeeIds : DeleteEmployee(id)
\* the records of the employees are made by an administrator on their behalf
DoCreateLeaveFor == \E p \in Admins, body \in RaceBodies : CreateLeave(p, body)

NextEmployees ==
  \/ DoCreateEmployee
  \/ DoUpdateEmployee
  \/ DoDeleteEmployee
  \/ DoClockInFor
  \/ DoCreateLeaveFor

SpecEmployees == InitLeave /\ [][NextEmployees]_vars

\* the statistics over employees of every status and the day's records
DoUpdateStatus == \E id \in EmployeeIds, patch \in StatusPatches : UpdateEmployee(id, patch)

DoHire == \E body \in { b \in EmployeeBodies : b.email = "c@x" } : CreateEmployee(body)

NextStats ==
  \/ DoHire
  \/ DoUpdateStatus
  \/ DoDeleteEmployee
  \/ DoClockInFor
  \/ GetAttendanceStats

SpecStats == Init /\ [][NextStats]_vars

\* ------------------------------------------------ departments, designations
\* Employee.countDocuments({ departmentId, status: { $ne: 'terminated' } })
DepartmentEmployeeCount(id) ==
  Cardinality({ e \in DOMAIN employees :
                  /\ employees[e].departmentId = id
                  /\ employees[e].status # "terminated" })

\* Employee.countDocuments({ designationId })
EmployeesWithDesignation(id) ==
  Cardinality({ e \in DOMAIN employees : employees[e].designationId = id })

DeleteDepartment(id) ==
  /\ IF id \notin departments
     THEN /\ res' = Respond("deleteDepartment", 404, "NotFound", NoId)
          /\ UNCHANGED departments
     ELSE IF DepartmentEmployeeCount(id) > 0
     THEN /\ res' = Respond("deleteDepartment", 400, "HasEmployees", NoId)
          /\ UNCHANGED departments
     ELSE /\ departments' = departments \ {id}
          /\ res' = Respond("deleteDepartment", 200, "OK", NoId)
  /\ UNCHANGED <<now, tz, employees, users, designations, attendance, leaves,
                 nextLeaveId, procs>>

DeleteDesignation(id) ==
  /\ IF id \notin designations
     THEN /\ res' = Respond("deleteDesignation", 404, "NotFound", NoId)
          /\ UNCHANGED designations
     ELSE IF EmployeesWithDesignation(id) > 0
     THEN /\ res' = Respond("deleteDesignation", 400, "HasEmployees", NoId)
          /\ UNCHANGED designations
     ELSE /\ designations' = designations \ {id}
          /\ res' = Respond("deleteDesignation", 200, "OK", NoId)
  /\ UNCHANGED <<now, tz, employees, users, departments, attendance, leaves,
                 nextLeaveId, procs>>

\* POST /employees bodies: a rehire by e-mail alone, and hires that name a
\* department and a designation
OrgBodies ==
  { NoEmployeeBody,
    [NoEmployeeBody EXCEPT !.email = "b@x"],
    [NoEmployeeBody EXCEPT !.email = "c@x", !.departmentId = Some(1),
                           !.designationId = Some(1)],
    [NoEmployeeBody EXCEPT !.email = "c@x", !.departmentId = Some(2),
                           !.designationId = Some(2)] }

DoHireOrg == \E body \in OrgBodies : CreateEmployee(body)
DoDeleteDepartment == \E id \in InitDepartments : DeleteDepartment(id)
DoDeleteDesignation == \E id \in InitDesignations : DeleteDesignation(id)

NextOrg ==
  \/ DoHireOrg
  \/ DoDeleteEmployee
  \/ DoDeleteDepartment
  \/ DoDeleteDesignation

SpecOrg == InitLeave /\ [][NextOrg]_vars

\* ------------------------------------------------------------------- auth
\* A refresh token is written as the number of tokens issued to the account
\* so far: generateTokens signs a new one at every login and every refresh.
AuthDone(op, code, msg, u, token) ==
  [Respond(op, code, msg, NoId) EXCEPT !.data = {[user |-> u, refreshToken |-> token]}]

\* login: findOne by e-mail, comparePassword, the isActive test, then new
\* tokens, the refresh token stored on the user
Login(email, passwordOk) ==
  /\ IF UsersWithEmail(email) = {}
     THEN /\ res' = Respond("login", 401, "InvalidCredentials", NoId)
          /\ UNCHANGED users
     ELSE \E u \in UsersWithEmail(email) :
            IF ~passwordOk
            THEN /\ res' = Respond("login", 401, "InvalidCredentials", NoId)
                 /\ UNCHANGED users
            ELSE IF ~users[u].isActive
            THEN /\ res' = Respond("login", 401, "Deactivated", NoId)
                 /\ UNCHANGED users
            ELSE /\ users[u].refreshToken < MaxTokens
                 /\ users' = [users EXCEPT ![u].refreshToken = @ + 1]
                 /\ res' = AuthDone("login", 200, "OK", u, users[u].refreshToken + 1)
  /\ UNCHANGED <<now, tz, employees, departments, designations, attendance, leaves,
                 nextLeaveId, procs>>

\* refreshToken: the cookie of user u; findOne({ _id, refreshToken }), then
\* new tokens, the new refresh token stored on the user
Refresh(u, cookie) ==
  /\ IF cookie = NoToken
     THEN /\ res' = Respond("refresh", 401, "NoRefreshToken", NoId)
          /\ UNCHANGED users
     ELSE IF u \notin DOMAIN users \/ users[u].refreshToken # cookie
     THEN /\ res' = Respond("refresh", 401, "InvalidRefreshToken", NoId)
          /\ UNCHANGED users
     ELSE /\ users[u].refreshToken < MaxTokens
          /\ users' = [users EXCEPT ![u].refreshToken = @ + 1]
          /\ res' = AuthDone("refresh", 200, "OK", u, users[u].refreshToken + 1)
  /\ UNCHANGED <<now, tz, employees, departments, designations, attendance, leaves,
                 nextLeaveId, procs>>

\* the accounts of the two employees and an e-mail without account
LoginEmails == {"a@x", "new@x", "nobody@x"}
Cookies == NoToken .. MaxTokens
DoLogin == \E email \in LoginEmails, passwordOk \in BOOLEAN : Login(email, passwordOk)
DoRefresh == \E u \in DOMAIN InitUsers, cookie \in Cookies : Refresh(u, cookie)
\* a rehire with a new account, which reactivates the account of that e-mail
DoRehire ==
  \E body \in { b \in EmployeeBodies : b.createAccount /\ b.email = "a@x" } :
     CreateEmployee(body)

NextAuth ==
  \/ DoLogin
  \/ DoRefresh
  \/ DoDeleteEmployee
  \/ DoRehire

SpecAuth == InitLeave /\ [][NextAuth]_vars

\* ------------------------------------------------------------------ claims
\* the calendar day (as a day number) the tracker resolves for instant n, and
\* the day number a stored date belongs to
DayOfNow(n) == (n + tz) \div DayHours
DayOfDate(d) == d \div DayHours
RecordsOfDay(e, n) ==
  { r \in attendance : r.employeeId = e /\ DayOfDate(r.date) = DayOfNow(n) }

C1_Step ==
  \A p \in Principals, b \in BodyEmps :
    (res'.op = "clockIn" /\ ClockIn(p, b) /\ ResolveEmployee(p, b) # NoId) =>
      LET e == ResolveEmployee(p, b) IN
      IF RecordsOfDay(e, now) = {}
      THEN /\ res'.code = 201
           /\ \E r \in attendance' :
                /\ r \notin attendance
                /\ attendance' = attendance \cup {r}
                /\ r.employeeId = e
                /\ r.status = "present"
                /\ r.clockIn = Some(now)
                /\ DayOfDate(r.date) = DayOfNow(now)
      ELSE /\ res'.code = 400
           /\ res'.msg = "AlreadyClockedIn"
           /\ attendance' = attendance

C1_OnePerDay ==
  \A r1 \in attendance, r2 \in attendance :
    (r1.src = "clockIn" /\ r2.src = "clockIn" /\ r1.employeeId = r2.employeeId
       /\ DayOfDate(r1.date) = DayOfDate(r2.date)) => r1 = r2

\* C1: a ClockIn for an employee without a record today answers 201 and
\* creates one 'present' record with clockIn set; a ClockIn for an employee
\* who has a record today answers 400 AlreadyClockedIn and creates nothing;
\* so ClockIn creates at most one record per employee and day.
C1_ClockInExactlyOnce == [][C1_Step]_vars /\ []C1_OnePerDay

\* a second ClockIn was refused after a first one created today's record
C1_Witness ==
  /\ res.op = "clockIn" /\ res.code = 400 /\ res.msg = "AlreadyClockedIn"
  /\ \E r \in RecordsOfDay(res.emp, now) : r.src = "clockIn"
  /\ \A r \in attendance : r.src = "clockIn"

ClockedInToday(e) == \E r \in RecordsOfDay(e, now) : IsSome(r.clockIn)
ClockedOutToday(e) == \E r \in RecordsOfDay(e, now) : IsSome(r.clockOut)

C2_Step ==
  \A p \in Principals, b \in BodyEmps :
    (res'.op = "clockOut" /\ ClockOut(p, b) /\ ResolveEmployee(p, b) # NoId) =>
      LET e == ResolveEmployee(p, b) IN
      IF ~ClockedInToday(e)
      THEN /\ res'.code = 400
           /\ res'.msg = "NoClockInRecord"
           /\ attendance' = attendance
      ELSE IF ClockedOutToday(e)
      THEN /\ res'.code = 400
           /\ res'.msg = "AlreadyClockedOut"
           /\ attendance' = attendance
      ELSE /\ res'.code = 200
           /\ \E r \in RecordsOfDay(e, now) :
                attendance' = (attendance \ {r}) \cup
                   {[r EXCEPT !.clockOut = Some(now),
                              !.totalWorkHours = (now - Val(r.clockIn)) * 100]}

\* C2: ClockOut for an employee who has not clocked in today answers 400
\* NoClockInRecord and changes nothing; after a clock-in the first ClockOut
\* sets clockOut and every later one answers 400 AlreadyClockedOut and leaves
\* the stored clockOut unchanged.
C2_ClockOutGuards == [][C2_Step]_vars

\* C3: at most one attendance record per employee and calendar day.
C3_OneRecordPerDay ==
  \A r1 \in attendance, r2 \in attendance :
    (r1.employeeId = r2.employeeId /\ DayOfDate(r1.date) = DayOfDate(r2.date)) => r1 = r2

RacePair(q1, q2) ==
  /\ q1 # q2
  /\ procs[q1].pc = "done" /\ procs[q2].pc = "done"
  /\ procs[q1].emp # NoId
  /\ procs[q1].emp = procs[q2].emp
  /\ procs[q1].today = procs[q2].today
  /\ procs[q1].msg \in {"Created", "AlreadyClockedIn", "ServerError"}
  /\ procs[q2].msg \in {"Created", "AlreadyClockedIn", "ServerError"}

\* C4: of the ClockIn requests for one employee and day, however their lookups
\* and inserts interleave, exactly one is answered 201, every other one 400
\* AlreadyClockedIn (never 500), and exactly one record of that employee and
\* day exists once they are done.
C4_RaceResolved ==
  \A q1 \in Procs, q2 \in Procs :
    RacePair(q1, q2) =>
      /\ procs[q1].code \in {201, 400} /\ procs[q2].code \in {201, 400}
      /\ ~(procs[q1].code = 201 /\ procs[q2].code = 201)
      /\ procs[q1].code = 400 => procs[q1].msg = "AlreadyClockedIn"
      /\ Cardinality({ r \in attendance : r.employeeId = procs[q1].emp
                                            /\ r.date = procs[q1].today }) = 1

\* both requests passed the lookup (were at the insert together), then one
\* inserted and the other was refused by the unique index
C4_Witness ==
  \E q1 \in Procs, q2 \in Procs :
    /\ RacePair(q1, q2)
    /\ procs[q1].code = 201 /\ procs[q2].code = 400
    /\ procs[q2].passed /\ procs[q1].passed

\* ------------------------------------------------------------ leave claims
Terminal == {"approved", "rejected"}

C5_Step ==
  \A id \in DOMAIN leaves :
    /\ (id \in DOMAIN leaves' /\ leaves'[id].status # leaves[id].status) =>
          (leaves[id].status = "pending" /\ leaves'[id].status \in Terminal)
    /\ leaves[id].status \in Terminal =>
          /\ id \in DOMAIN leaves'
          /\ leaves'[id] = leaves[id]
          /\ \A patch \in Patches : (res'.op = "updateLeave" /\ UpdateLeave(id, patch)) =>
                (res'.code = 400 /\ res'.msg = "AlreadyProcessed")
          /\ (res'.op = "deleteLeave" /\ DeleteLeave(id)) => (res'.code = 400 /\ res'.msg = "AlreadyProcessed")

\* C5: the stored status of a leave request changes only from pending to
\* approved or from pending to rejected; an approved or rejected request is
\* never changed again, and Update and Delete on it answer 400 AlreadyProcessed.
C5_StatusTransitions == [][C5_Step]_vars

BalanceOf(emps, e) == emps[e].leaveBalance

C6_RejectStep ==
  \A id \in LeaveIds, p \in Principals :
    (res'.op = "rejectLeave" /\ res'.code = 200 /\ RejectLeave(id, p)) =>
       (leaves'[id].status = "rejected" /\ employees' = employees)

C6_OriginalStep ==
  \A id \in LeaveIds, p \in Principals :
    (res'.op = "approveLeave" /\ res'.code = 200 /\ ApproveLeave(id, p)) =>
       LET l == leaves'[id]
           e == l.employeeId IN
       /\ l.status = "approved"
       /\ l.leaveType \in DOMAIN BalanceOf(employees, e)
       /\ BalanceOf(employees', e)[l.leaveType] =
             BalanceOf(employees, e)[l.leaveType] - l.totalDays
       /\ \A k \in DOMAIN BalanceOf(employees, e) \ {l.leaveType} :
             BalanceOf(employees', e)[k] = BalanceOf(employees, e)[k]
       /\ \A o \in DOMAIN employees \ {e} : employees'[o] = employees[o]

\* C6 as claimed: a successful Approve sets status approved and decreases the
\* owner's counter of the request's leave type by exactly totalDays, for every
\* one of the six leave types; a successful Reject changes no counter.
C6_ApproveDeductsEveryType == [][C6_OriginalStep /\ C6_RejectStep]_vars

C6_AmendedStep ==
  \A id \in LeaveIds, p \in Principals :
    (res'.op = "approveLeave" /\ res'.code = 200 /\ ApproveLeave(id, p)) =>
       LET l == leaves'[id]
           e == l.employeeId IN
       /\ l.status = "approved"
       /\ IF l.leaveType \in {"annual", "sick", "personal", "unpaid"}
          THEN /\ BalanceOf(employees', e)[l.leaveType] =
                     BalanceOf(employees, e)[l.leaveType] - l.totalDays
               /\ \A k \in DOMAIN BalanceOf(employees, e) \ {l.leaveType} :
                     BalanceOf(employees', e)[k] = BalanceOf(employees, e)[k]
               /\ \A o \in DOMAIN employees \ {e} : employees'[o] = employees[o]
          ELSE employees' = employees

\* C6 amended: a successful Approve sets status approved and, when the
\* leave type is annual, sick, personal or unpaid, decreases the owner's
\* counter of that type by exactly the request's totalDays and no other
\* counter; for a maternity or paternity request (the employee has no such
\* counter) no counter changes.  A successful Reject sets status rejected
\* and changes no counter.
C6_ApproveDeductsCountedTypes == [][C6_AmendedStep /\ C6_RejectStep]_vars

\* an annual request of employee 1 was approved and its days were deducted
C6_Witness ==
  /\ res.op = "approveLeave" /\ res.code = 200
  /\ \E id \in DOMAIN leaves :
       /\ leaves[id].status = "approved" /\ IsSome(leaves[id].approvedAt)
       /\ leaves[id].leaveType = "annual" /\ leaves[id].employeeId = 1
       /\ employees[1].leaveBalance.annual = DefaultAnnual - leaves[id].totalDays

\* the employee a principal resolves to: the linked employee, else by e-mail
PrincipalEmployee(p) ==
  IF p.link.kind # "none" THEN p.link.id ELSE FindEmployeeByEmail(p.email)

C7_Step ==
  \A id \in DOMAIN leaves, p \in Principals :
    (/\ res'.op \in {"approveLeave", "rejectLeave"}
     /\ ApproveLeave(id, p) \/ RejectLeave(id, p)
     /\ leaves[id].status = "pending"
     /\ PrincipalEmployee(p) # NoId
     /\ PrincipalEmployee(p) = leaves[id].employeeId) =>
       /\ res'.code = 400
       /\ res'.msg \in {"SelfApproval", "SelfRejection"}
       /\ leaves' = leaves
       /\ employees' = employees

\* C7: Approve and Reject of a pending request by a principal who resolves
\* (linked employee id, else e-mail) to the request's own employee answer 400
\* SelfApproval / SelfRejection; the request stays pending, balances unchanged.
C7_NoSelfApproval == [][C7_Step]_vars

C8_Guards(op, selfMsg) ==
  /\ res'.op = op
  /\ \A id \in LeaveIds :
       /\ (id \notin DOMAIN leaves /\ res'.code = 404) => res'.msg = "NotFound"
       /\ res'.msg = selfMsg => res'.code = 400
  /\ res'.code # 200 => (leaves' = leaves /\ employees' = employees)

C8_Step ==
  \A id \in LeaveIds, p \in Principals :
    /\ (res'.op = "approveLeave" /\ ApproveLeave(id, p)) =>
         /\ C8_Guards("approveLeave", "SelfApproval")
         /\ id \notin DOMAIN leaves => (res'.code = 404 /\ res'.msg = "NotFound")
         /\ (id \in DOMAIN leaves /\ leaves[id].status # "pending") =>
               (res'.code = 400 /\ res'.msg = "AlreadyProcessed")
         /\ res'.msg = "SelfApproval" => (id \in DOMAIN leaves /\ leaves[id].status = "pending")
    /\ (res'.op = "rejectLeave" /\ RejectLeave(id, p)) =>
         /\ C8_Guards("rejectLeave", "SelfRejection")
         /\ id \notin DOMAIN leaves => (res'.code = 404 /\ res'.msg = "NotFound")
         /\ (id \in DOMAIN leaves /\ leaves[id].status # "pending") =>
               (res'.code = 400 /\ res'.msg = "AlreadyProcessed")
         /\ res'.msg = "SelfRejection" => (id \in DOMAIN leaves /\ leaves[id].status = "pending")

\* C8: Approve and Reject answer 404 for a missing request, else 400
\* AlreadyProcessed for a request that is not pending (before the
\* self-approval guard is looked at), else 400 for self-approval; whenever
\* they fail, the stored requests and all leave balances are unchanged.
C8_GuardOrder == [][C8_Step]_vars

\* the approver's own, already processed request was refused as processed
C8_Witness ==
  /\ res.op \in {"approveLeave", "rejectLeave"}
  /\ res.code = 400 /\ res.msg = "AlreadyProcessed"
  /\ res.emp # NoId
  /\ \A id \in DOMAIN leaves :
       leaves[id].status # "pending" /\ leaves[id].employeeId = res.emp
  /\ leaves # << >>

C9_Step ==
  \A p \in Principals, body \in CreateBodies :
    (res'.op = "createLeave" /\ res'.code = 201 /\ CreateLeave(p, body)) =>
       \A id \in DOMAIN leaves' \ DOMAIN leaves : leaves'[id].status = "pending"

\* C9: every leave request created through createLeave is stored with status
\* pending, whatever the request body contains.
C9_CreatedPending == [][C9_Step]_vars

\* C10: every stored leave request has
\* totalDays = ceil(|endDate - startDate| in days) + 1.
C10_TotalDaysDerived ==
  \A id \in DOMAIN leaves :
    leaves[id].totalDays =
      CeilDiv(Abs(leaves[id].endDate - leaves[id].startDate), DayHours) + 1

\* ----------------------------------------------------------- access claims
\* the resolution order, written out on the principal's fields
C11_Target(p, bodyEmp) ==
  IF bodyEmp # NoId THEN bodyEmp
  ELSE IF p.link.kind \in {"bare", "populated"} THEN p.link.id
  ELSE IF \E e \in DOMAIN employees : employees[e].email = p.email
  THEN CHOOSE e \in DOMAIN employees : employees[e].email = p.email
  ELSE NoId

C11_AttendanceStep(op, p, b) ==
  LET e == C11_Target(p, b) IN
  IF e = NoId
  THEN /\ res'.code = 400 /\ res'.msg = "Unlinked"
       /\ attendance' = attendance /\ leaves' = leaves
  ELSE /\ res'.msg # "Unlinked"
       /\ res'.emp = e
       /\ \A r \in (attendance' \ attendance) : r.employeeId = e
       /\ \A r \in (attendance \ attendance') : r.employeeId = e

C11_Step ==
  /\ \A p \in Principals, b \in BodyEmps :
       /\ (res'.op = "clockIn" /\ ClockIn(p, b)) => C11_AttendanceStep("clockIn", p, b)
       /\ (res'.op = "clockOut" /\ ClockOut(p, b)) => C11_AttendanceStep("clockOut", p, b)
  /\ \A p \in Principals, body \in AccessBodies :
       (res'.op = "createLeave" /\ CreateLeave(p, body)) =>
          LET e == C11_Target(p, body.employeeId) IN
          IF e = NoId
          THEN /\ res'.code = 400 /\ res'.msg = "Unlinked"
               /\ attendance' = attendance /\ leaves' = leaves
          ELSE /\ res'.msg # "Unlinked"
               /\ res'.emp = e
               /\ \A id \in DOMAIN leaves' \ DOMAIN leaves : leaves'[id].employeeId = e

\* C11: ClockIn, ClockOut and leave Create act on the employee id of the
\* request body if there is one, else on the principal's linked employee (a
\* bare id or the id of a populated record), else on the employee with the
\* principal's e-mail; when none resolves they answer 400 Unlinked and no
\* attendance record or leave request is created or changed.
C11_ResolutionOrder == [][C11_Step]_vars

\* a leave Create without any resolvable employee was refused, after a
\* clock-in and clock-out that resolved an employee had acted
C11_Witness ==
  /\ res.op = "createLeave" /\ res.code = 400 /\ res.msg = "Unlinked"
  /\ leaves = << >>
  /\ \E r \in attendance : IsSome(r.clockIn) /\ IsSome(r.clockOut)

C12_Step ==
  \A p \in Principals, f \in BodyEmps :
    (/\ p.role = "employee"
     /\ res'.op \in {"getAttendance", "getLeaves"}
     /\ GetAttendance(p, f) \/ GetLeaves(p, f)) =>
       \A r \in res'.data : r.employeeId = PrincipalEmployee(p)

\* C12: for a principal with role 'employee' the attendance list and the
\* leave list contain only records of the principal's own employee, whatever
\* employeeId filter is sent and also when no employee has the principal's
\* e-mail.
C12_EmployeeSeesOwnOnly == [][C12_Step]_vars

\* ------------------------------------------------- concurrent leave claims
\* the request saved its decision (it answers 200 unless a later step fails)
Decided(q) ==
  /\ procs[q].pc \in {"deduct", "deductSave", "done"}
  /\ procs[q].op \in {"approveLeave", "rejectLeave"}
  /\ procs[q].pc = "done" => procs[q].code = 200

Deducted(q) == procs[q].pc = "done" /\ procs[q].ded > 0

\* C13: of the Approve and Reject requests on one leave request, however
\* their steps interleave, at most one takes effect (saves its decision and
\* answers 200), and the owner's balance is deducted at most once for it.
C13_OneTerminalTransition ==
  \A q1 \in Procs, q2 \in Procs :
    /\ (q1 # q2 /\ Decided(q1) /\ Decided(q2)) => procs[q1].id # procs[q2].id
    /\ (q1 # q2 /\ Deducted(q1) /\ Deducted(q2)) => procs[q1].id # procs[q2].id

\* C18: no stored leave request whose status is approved or rejected is
\* ever removed, however Delete interleaves with Approve and Reject; a
\* Delete that finds the request not pending answers 400 AlreadyProcessed.
C18_Step ==
  /\ \A id \in DOMAIN leaves :
       leaves[id].status \in Terminal => id \in DOMAIN leaves'
  /\ \A q \in Procs, id \in LeaveIds, p \in RaceApprovers :
       (/\ procs'[q].pc = "done"
        /\ LeaveLoad(q, "deleteLeave", id, p)
        /\ id \in DOMAIN leaves
        /\ leaves[id].status # "pending") =>
          (procs'[q].code = 400 /\ procs'[q].msg = "AlreadyProcessed")

C18_DeleteOnlyPending == [][C18_Step]_vars

\* ------------------------------------------------- more attendance claims
C15_Step ==
  /\ \A e \in EmpIds, b \in ManualBodies :
       (/\ res'.op = "createAttendance"
        /\ CreateAttendance(e, b.date, b.clockIn, b.clockOut, b.status)
        /\ \E r \in attendance : r.employeeId = e /\ r.date = b.date) =>
          (res'.code = 400 /\ attendance' = attendance)
  /\ \A p \in Principals, b \in BodyEmps :
       (/\ res'.op = "clockIn"
        /\ ClockIn(p, b)
        /\ \E r \in attendance :
             r.employeeId = ResolveEmployee(p, b) /\ r.date = Today(now)) =>
          (res'.code = 400 /\ attendance' = attendance)

\* C15: a manual entry or a clock-in whose (employeeId, date) is already
\* stored answers 400, never 500, and adds or changes no record.
C15_DuplicateIsConflict == [][C15_Step]_vars

\* r is the integer nearest to num / den, a half going up
IsNearest(r, num, den) ==
  /\ 2 * r * den - den <= 2 * num
  /\ 2 * num < 2 * r * den + den

\* h is workUnits / perHour hours in hundredths, rounded to the nearest
C16_Rounded(h, workUnits, perHour) == IsNearest(h, workUnits * 100, perHour)

C16_DocOk(doc, perHour) ==
  IF IsSome(doc.clockIn) /\ IsSome(doc.clockOut)
  THEN /\ C16_Rounded(doc.totalWorkHours,
            (Val(doc.clockOut) - Val(doc.clockIn))
              - (IF IsSome(doc.breakStart) /\ IsSome(doc.breakEnd)
                 THEN Val(doc.breakEnd) - Val(doc.breakStart) ELSE 0),
            perHour)
       /\ (/\ Val(doc.clockOut) = Val(doc.clockIn) + 8 * perHour
           /\ ~(IsSome(doc.breakStart) /\ IsSome(doc.breakEnd))) =>
             doc.totalWorkHours = 800
  ELSE doc.totalWorkHours = 0

\* C16: every saved attendance record with clockIn and clockOut has
\* totalWorkHours = (clockOut - clockIn, minus breakEnd - breakStart when
\* both break stamps exist) in hours rounded to two decimals, 8 hours
\* without break giving exactly 8.00; with a stamp missing it is 0.
C16_TotalWorkHours ==
  /\ \A r \in attendance : C16_DocOk(r, 1)
  /\ res.op = "preSaveAttendance" => \A doc \in res.data : C16_DocOk(doc, HourMinutes)

\* a document with a break whose hours are not a whole number of hundredths
\* before rounding was saved
C16_Witness ==
  /\ res.op = "preSaveAttendance"
  /\ \E doc \in res.data :
       /\ IsSome(doc.clockIn) /\ IsSome(doc.clockOut)
       /\ IsSome(doc.breakStart) /\ IsSome(doc.breakEnd)
       /\ ((Val(doc.clockOut) - Val(doc.clockIn)
             - (Val(doc.breakEnd) - Val(doc.breakStart))) * 100) % HourMinutes # 0
       /\ doc.totalWorkHours > 0

\* --------------------------------------------------------- employee claims
C14_Step ==
  \A e \in DOMAIN employees :
    (e \in DOMAIN employees' /\ employees'[e].leaveBalance # employees[e].leaveBalance) =>
       (res'.op = "approveLeave" /\ res'.code = 200)

\* C14: the leave-balance counters of an employee change only in a
\* successful Approve; every other operation leaves them unchanged.
C14_BalanceOnlyByApprove == [][C14_Step]_vars

PresentOfToday ==
  Cardinality({ r \in attendance :
                  /\ r.status = "present"
                  /\ r.date >= Today(now) - tz
                  /\ r.date < Today(now) - tz + DayHours })

C17_StatsOk(stats, total) ==
  /\ stats.presentToday = PresentOfToday
  /\ stats.absentToday = total - PresentOfToday
  /\ IF total = 0
     THEN stats.attendanceRate = 0
     ELSE IsNearest(stats.attendanceRate, PresentOfToday * 100, total)

C19_OnePerEmail ==
  \A e1 \in DOMAIN employees, e2 \in DOMAIN employees :
    employees[e1].email = employees[e2].email => e1 = e2

C19_Step ==
  \A body \in EmployeeBodies :
    (res'.op = "createEmployee" /\ CreateEmployee(body)) =>
       LET held == { e \in DOMAIN employees : employees[e].email = Lower(body.email) } IN
       /\ (\E e \in held : employees[e].status # "terminated") =>
             /\ res'.code = 400
             /\ employees' = employees
       /\ (held # {} /\ \A e \in held : employees[e].status = "terminated") =>
             /\ res'.code = 200
             /\ DOMAIN employees' = DOMAIN employees
             /\ res'.emp \in held
             /\ employees'[res'.emp].status = "active"
             /\ \A o \in DOMAIN employees \ {res'.emp} : employees'[o] = employees[o]

\* C19: there is never more than one employee record per e-mail; a create
\* for the e-mail of a non-terminated employee answers 400 and creates
\* nothing, a create for the e-mail of a terminated employee makes that same
\* record active again instead of creating a second one.
C19_OneRecordPerEmail == [][C19_Step]_vars /\ []C19_OnePerEmail

\* employee 1 was terminated and then hired again under the same id
C19_Witness ==
  /\ res.op = "createEmployee" /\ res.code = 200 /\ res.msg = "Reactivated"
  /\ res.emp = 1
  /\ employees[1].status = "active"
  /\ \E u \in DOMAIN users : users[u].employeeId = 1 /\ ~users[u].isActive

C20_Step ==
  \A id \in DOMAIN employees :
    (res'.op = "deleteEmployee" /\ res'.code = 200 /\ DeleteEmployee(id)) =>
       LET linked == { u \in DOMAIN users : users[u].employeeId = id } IN
       /\ DOMAIN employees' = DOMAIN employees
       /\ employees'[id] = [employees[id] EXCEPT !.status = "terminated"]
       /\ \A o \in DOMAIN employees \ {id} : employees'[o] = employees[o]
       /\ attendance' = attendance
       /\ leaves' = leaves
       /\ DOMAIN users' = DOMAIN users
       /\ IF linked = {}
          THEN users' = users
          ELSE \E u \in linked :
                 /\ ~users'[u].isActive
                 /\ users' = [users EXCEPT ![u].isActive = FALSE]

C21_DeleteStep ==
  /\ res'.op = "deleteDepartment" =>
        \A id \in InitDepartments :
          DeleteDepartment(id) =>
            /\ (id \in departments /\ DepartmentEmployeeCount(id) > 0) =>
                  (res'.code = 400 /\ departments' = departments)
            /\ (id \in departments /\ DepartmentEmployeeCount(id) = 0) =>
                  (res'.code = 200 /\ id \notin departments')
  /\ res'.op = "deleteDesignation" =>
        \A id \in InitDesignations :
          DeleteDesignation(id) =>
            /\ (id \in designations /\ EmployeesWithDesignation(id) > 0) =>
                  (res'.code = 400 /\ designations' = designations)
            /\ (id \in designations /\ EmployeesWithDesignation(id) = 0) =>
                  (res'.code = 200 /\ id \notin designations')
C21_NoDanglingReference ==
  \A e \in DOMAIN employees :
    /\ (employees[e].status # "terminated" /\ employees[e].departmentId # NoId) =>
          employees[e].departmentId \in departments
    /\ employees[e].designationId # NoId =>
          employees[e].designationId \in designations
C21_ReferentialIntegrity == [][C21_DeleteStep]_vars /\ []C21_NoDanglingReference

\* ------------------------------------------------ attendance record claims
\* C22: after an attendance record is created only its clockOut (with the
\* derived totalWorkHours) is ever changed: employeeId, date, clockIn and
\* status stay, a record whose clockOut is set is never changed again, and no
\* operation removes a record.
C22_Step ==
  \A r \in attendance :
    \E r2 \in attendance' :
      /\ r2 = [r EXCEPT !.clockOut = r2.clockOut, !.totalWorkHours = r2.totalWorkHours]
      /\ IsSome(r.clockOut) => r2 = r
C22_OnlyClockOutChanges == [][C22_Step]_vars
C22_Witness ==
  /\ res.op = "clockOut"
  /\ res.msg = "AlreadyClockedOut"
  /\ \E r \in attendance : r.employeeId = res.emp /\ IsSome(r.clockOut)

\* C23: whatever the server's timezone offset, a record created by ClockIn is
\* dated with the UTC midnight of the UTC day that contains the clock-in
\* instant (date <= clockIn < date + 24h), and ClockIn and ClockOut look up
\* today's record in that same UTC window.
UtcMidnight(n) == (n \div DayHours) * DayHours
C23_Step ==
  res'.op \in {"clockIn", "clockOut"} =>
    /\ Today(now) = UtcMidnight(now)
    /\ \A r \in attendance' \ attendance :
          r.src = "clockIn" =>
            /\ r.date <= Val(r.clockIn)
            /\ Val(r.clockIn) < r.date + DayHours
C23_UtcDay == [][C23_Step]_vars

\* C24: of concurrent ClockOut requests for the same employee and day exactly
\* one succeeds and the others fail with AlreadyClockedOut; a stored clockOut
\* (with its totalWorkHours) is never overwritten by another request.
ClockOutsDone(e, d) ==
  { q \in Procs : /\ procs[q].pc = "done"
                  /\ procs[q].code = 200
                  /\ procs[q].emp = e
                  /\ procs[q].today = d }
C24_OneSucceeds ==
  \A r \in attendance : Cardinality(ClockOutsDone(r.employeeId, r.date)) <= 1
C24_Step == \A r \in attendance : IsSome(r.clockOut) => r \in attendance'
C24_ClockOutOnce == []C24_OneSucceeds /\ [][C24_Step]_vars

\* --------------------------------------------------- leave balance claims
\* C25: when two Approve requests for two different pending requests of the
\* same employee and leave type run concurrently and both succeed, the balance
\* ends at the initial balance minus the sum of the two totalDays.
ApprovedIds ==
  { id \in DOMAIN leaves :
      \E q \in Procs : /\ procs[q].pc = "done"
                       /\ procs[q].code = 200
                       /\ procs[q].id = id }
\* every request has answered, and no request was approved twice
C25_BothApproved ==
  /\ \A q \in Procs : procs[q].pc = "done"
  /\ \A q1, q2 \in Procs :
       (q1 # q2 /\ procs[q1].code = 200 /\ procs[q2].code = 200) =>
         procs[q1].id # procs[q2].id
  /\ Cardinality(ApprovedIds) = 2
C25_NoLostDeduction ==
  C25_BothApproved =>
    \A e \in DOMAIN InitEmployees, key \in BalanceKeys :
      LET days(id) == IF /\ id \in ApprovedIds
                         /\ leaves[id].employeeId = e
                         /\ LeaveTypeKey(leaves[id].leaveType) = key
                      THEN leaves[id].totalDays ELSE 0
      IN employees[e].leaveBalance[key] =
           InitEmployees[e].leaveBalance[key] - (days(1) + days(2))

\* C26: Approve is all-or-nothing: when an Approve answers with an error, a
\* 500 after a storage fault included, the request is still pending and no
\* balance has changed (no other request is under way here).
C26_AllOrNothing ==
  \A q \in Procs :
    (/\ procs[q].pc = "done"
     /\ procs[q].op = "approveLeave"
     /\ procs[q].code # 200
     /\ \A o \in Procs \ {q} : procs[o].pc = "idle") =>
      /\ procs[q].id \in DOMAIN leaves => leaves[procs[q].id].status = "pending"
      /\ employees = InitEmployees

\* C28: no leave-balance counter of any employee is ever negative, whatever
\* leave requests are created and approved.
C28_BalanceNeverNegative ==
  \A e \in DOMAIN employees, key \in BalanceKeys : employees[e].leaveBalance[key] >= 0

\* C27: after any employee creations and terminations and clock-ins,
\* attendanceStats reports absentToday >= 0 and attendanceRate <= 100.
C27_StatsInRange ==
  res.op = "getAttendanceStats" =>
    \A stats \in res.data :
       /\ stats.absentToday >= 0
       /\ stats.attendanceRate <= 100

\* ------------------------------------------------------------ auth claims
\* C29: while a user account is inactive no auth operation issues it a new
\* access token: login answers 401, and so does a refresh with a token that
\* was issued before the deactivation.
C29_Step ==
  (res'.op \in {"login", "refresh"} /\ res'.code = 200) =>
    \A d \in res'.data : users[d.user].isActive
C29_NoTokenWhileInactive == [][C29_Step]_vars

\* C30: for a principal of role employee, ClockIn, ClockOut and leave Create,
\* Update and Delete never create, change or remove an attendance record or
\* a leave request of an employee other than the one the principal resolves
\* to (its link, else its e-mail), whatever employeeId or request id is sent.
C30_Touched ==
  { r.employeeId : r \in (attendance' \ attendance) \cup (attendance \ attendance') }
    \cup { leaves'[id].employeeId : id \in DOMAIN leaves' \ DOMAIN leaves }
    \cup { leaves[id].employeeId : id \in DOMAIN leaves \ DOMAIN leaves' }
    \cup { leaves[id].employeeId :
             id \in { i \in DOMAIN leaves \cap DOMAIN leaves' : leaves[i] # leaves'[i] } }
C30_Step ==
  \A p \in { q \in Principals : q.role = "employee" } :
    /\ \A b \in BodyEmps :
         /\ (res'.op = "clockIn" /\ ClockIn(p, b)) =>
               C30_Touched \subseteq {ResolveEmployee(p, NoId)}
         /\ (res'.op = "clockOut" /\ ClockOut(p, b)) =>
               C30_Touched \subseteq {ResolveEmployee(p, NoId)}
    /\ \A body \in AccessBodies :
         (res'.op = "createLeave" /\ CreateLeave(p, body)) =>
            C30_Touched \subseteq {ResolveLeaveEmployee(p, NoId)}
    /\ res'.op \in {"updateLeave", "deleteLeave"} =>
         C30_Touched \subseteq {ResolveLeaveEmployee(p, NoId)}
C30_OwnRecordsOnly == [][C30_Step]_vars

====
